---- MODULE Spec2Model ----
(***************************************************************************)
(* Model of panda_util.display.Display (src/src/panda_util/display.py):    *)
(* the content buffer, the incremental repaint of _render_to_screen, the   *)
(* display lock, and the background display loop with its start and stop;  *)
(* and of the selection menus of src/src/panda_util/selection.py.          *)
(*                                                                         *)
(* The terminal is modelled as a grid of rows of cells with a cursor; the  *)
(* bytes the painter prints are a sequence of tokens (cells, newlines and  *)
(* the escape sequences ESC[H, ESC[2J, ESC[K, ESC[nA) that the terminal    *)
(* interprets.  Frames are assumed to fit the terminal (no scrolling, no   *)
(* line wrapping).                                                         *)
(*                                                                         *)
(* Spec is the painter with its display loops and one foreground caller;   *)
(* it keeps what every operation prints (hist) and does not follow the     *)
(* screen.  SpecPainter is the painter driven by one caller with no loop,  *)
(* together with the terminal that interprets what is printed.             *)
(* SpecFaulty is that caller appending items whose conversion raises.      *)
(* SpecLoop is the display loop under fair scheduling.  SpecLock is every  *)
(* user of the display lock under fair scheduling.  SpecFrames is a caller *)
(* that rebuilds whole frames beside a running loop, as the update loop of *)
(* tests/flicker_test.py does.  SpecMenu is one run of a menu, tabular or  *)
(* numbered, on a display without a loop.                                  *)
(***************************************************************************)
EXTENDS Naturals, Integers, Sequences, FiniteSets

VARIABLES
    content_buffer,   \* self._content_buffer: list of items
    last_line_count,  \* self._last_line_count
    terminal_size,    \* (self.terminal_width, self.terminal_height)
    display_lock,     \* self._display_lock: its holder, or NoOwner
    display_thread,   \* self._display_thread: a thread id, or None
    stop_display,     \* self._stop_display
    pc,               \* position of every loop thread in _display_loop
    fg,               \* position of the foreground caller
    tty_size,         \* the size shutil.get_terminal_size() returns now
    screen,           \* the rows of the terminal, each a sequence of cells
    cursor,           \* the terminal's cursor, [row, col], both from 0
    appended,         \* history: the items appended since the buffer was last emptied
    loopRunning,      \* history: start() succeeded and no stop() returned since
    begun,            \* history, kept where the specification starts it:
                      \* per loop thread, the renders it has begun since
                      \* the stop flag was last set
    hist,             \* history: the operation that completed last and, when
                      \* it rendered, what _render_to_screen printed
    options,          \* Selection.options: the values of the options, in order
    index,            \* Selection.index
    cancellable,      \* Selection.cancellable
    action_callback,  \* Selection.action_callback is given
    variant,          \* "box" (BoxSelection) or "numbered" (NumberedSelection)
    menu_pc,          \* position of the menu's caller in run
    result,           \* what run has returned or raised
    log               \* history of run: the starting index, the keys read, the
                      \* index before each key, the calls of the callback and
                      \* the painter operations since the last key was read

vars == <<content_buffer, last_line_count, terminal_size, display_lock,
          display_thread, stop_display, pc, fg, tty_size, screen, cursor,
          appended, loopRunning, begun, hist, options, index, cancellable,
          action_callback, variant, menu_pc, result, log>>

menuVars == <<options, index, cancellable, action_callback, variant, menu_pc,
              result, log>>

\* ---------------------------------------------------------------- bounds

\* Longest content buffer the caller builds.
MaxBuf == 2

\* Number of thread objects the caller may have alive or startable at once.
MaxThreads == 2

\* ----------------------------------------------------------------- items

\* A content item is a string: a sequence of lines, each a sequence of cells.
ItemA == << <<"a">> >>
ItemB == << <<"b", "b">> >>
\* A string holding a stray closing markup tag: str() of it is the text
\* itself, rich's console.print raises on it.
ItemX == << <<"[/x]">> >>

Items == {ItemA, ItemB, ItemX}

\* The items the caller of the sequential painter appends, and the items the
\* caller appends while display loops run.
PainterItems == {ItemA, ItemB}
CallerItems == {ItemA, ItemX}

Malformed == {ItemX}

\* An object whose __str__ raises: neither str(item) nor console.print(item)
\* can produce its text.
ItemRaises == << <<"?">> >>
Unprintable == {ItemRaises}

\* The items the caller appends when some of them cannot be converted.
FaultyItems == {ItemA, ItemRaises}

\* The sizes the terminal may have, <<columns, rows>>.
Sizes == {<<80, 24>>, <<100, 30>>}

\* self._display_thread = None
None == 0

\* Identities of the lock's holders: the loop threads, the foreground caller,
\* and nobody (the lock as threading.Lock() creates it).
Threads == 1..MaxThreads
Foreground == 0
NoOwner == -1

\* --------------------------------------------------------------- tokens

Tok(k, c, n) == [k |-> k, c |-> c, n |-> n]
Ch(c) == Tok("ch", c, 0)
NL == Tok("nl", "", 0)
HOME == Tok("home", "", 0)
CLS == Tok("cls", "", 0)
EL == Tok("el", "", 0)
UP(n) == Tok("up", "", n)

RECURSIVE Flatten(_)
Flatten(ss) == IF ss = <<>> THEN <<>> ELSE Head(ss) \o Flatten(Tail(ss))

RECURSIVE JoinWith(_, _)
JoinWith(ss, sep) ==
    IF ss = <<>> THEN <<>>
    ELSE IF Len(ss) = 1 THEN Head(ss)
    ELSE Head(ss) \o sep \o JoinWith(Tail(ss), sep)

LineToks(line) == [i \in 1..Len(line) |-> Ch(line[i])]

\* str(item): the item's lines joined by newlines.
Str(item) == JoinWith([i \in 1..Len(item) |-> LineToks(item[i])], <<NL>>)

ErrorLine == <<Ch("ERROR OCCURRED"), NL>>

\* self.console.print(item) into the string buffer, with the except branch:
\* the text followed by a newline, or the error line when rich raises.
RichPrint(item) ==
    IF item \in Malformed \cup Unprintable THEN ErrorLine
    ELSE Str(item) \o <<NL>>

RichOutput(buf) == Flatten([i \in 1..Len(buf) |-> RichPrint(buf[i])])

\* '\n'.join(str(item) for item in self._content_buffer)
PlainOutput(buf) == JoinWith([i \in 1..Len(buf) |-> Str(buf[i])], <<NL>>)

\* str(item) raises for some item of the buffer: the join has no except branch.
PlainRaises(buf) == \E i \in 1..Len(buf) : buf[i] \in Unprintable

CountKind(toks, k) == Cardinality({i \in 1..Len(toks) : toks[i].k = k})

\* line_count = output.count('\n') + 1
LineCount(output) == CountKind(output, "nl") + 1

\* for _ in range(line_count, last): print('\n\033[K')
EraseLines(line_count, last) ==
    Flatten([i \in 1..(last - line_count) |-> <<NL, EL>>])

CursorBackShort(line_count, last) == <<UP(last - line_count - 1)>>

\* print(f'\033[{last - line_count}A')
CursorBack(line_count, last) == <<UP(last - line_count)>>

ErasePass(line_count, last) ==
    IF last > line_count
    THEN EraseLines(line_count, last) \o CursorBack(line_count, last)
    ELSE <<>>

\* ------------------------------------------------------------- terminal

\* Rows the model keeps of the screen: enough for the longest frame.
ScreenRows == 2 * MaxBuf + 2

BlankScreen == [r \in 1..ScreenRows |-> <<>>]

Min(a, b) == IF a < b THEN a ELSE b
Max(a, b) == IF a > b THEN a ELSE b

\* A row after writing cell c at column col (from 0).
PutCell(row, col, c) ==
    [i \in 1..Max(Len(row), col + 1) |->
        IF i = col + 1 THEN c
        ELSE IF i <= Len(row) THEN row[i] ELSE " "]

\* The terminal after one token.
Apply(t, tok) ==
    CASE tok.k = "ch" ->
           [t EXCEPT !.screen[t.row + 1] = PutCell(@, t.col, tok.c),
                     !.col = t.col + 1]
      [] tok.k = "nl" ->
           [t EXCEPT !.row = Min(t.row + 1, ScreenRows - 1), !.col = 0]
      [] tok.k = "home" -> [t EXCEPT !.row = 0, !.col = 0]
      [] tok.k = "cls" -> [t EXCEPT !.screen = BlankScreen]
      [] tok.k = "el" ->
           [t EXCEPT !.screen[t.row + 1] = SubSeq(@, 1, Min(Len(@), t.col))]
      [] tok.k = "up" -> [t EXCEPT !.row = Max(t.row - tok.n, 0)]

RECURSIVE Emulate(_, _)
Emulate(t, toks) ==
    IF toks = <<>> THEN t ELSE Emulate(Apply(t, Head(toks)), Tail(toks))

Tty == [screen |-> screen, row |-> cursor.row, col |-> cursor.col]

\* --------------------------------------------------------------- render

\* if (current_width, current_height) != (self.terminal_width, self.terminal_height)
Resized == tty_size # terminal_size

\* A frame whose erase pass forgets the reset of the line count on a resize.
FrameNoReset(rich) ==
    LET output == IF rich THEN RichOutput(content_buffer)
                  ELSE PlainOutput(content_buffer)
        line_count == LineCount(output)
    IN [output |-> output,
        line_count |-> line_count,
        emitted |-> <<HOME>> \o (IF Resized THEN <<CLS>> ELSE <<>>)
                    \o output \o ErasePass(line_count, last_line_count)]

\* What one call of _render_to_screen(rich) on a non-empty buffer computes
\* and prints, from the cursor-home to the erase pass.
Frame(rich) ==
    LET prev == IF Resized THEN 0 ELSE last_line_count
        output == IF rich THEN RichOutput(content_buffer)
                  ELSE PlainOutput(content_buffer)
        line_count == LineCount(output)
    IN [output |-> output,
        line_count |-> line_count,
        emitted |-> <<HOME>> \o (IF Resized THEN <<CLS>> ELSE <<>>)
                    \o output \o ErasePass(line_count, prev)]

\* _render_to_screen(rich) leaves by an exception: the non-rich join raised.
Raises(rich) == ~rich /\ content_buffer # <<>> /\ PlainRaises(content_buffer)

\* What _render_to_screen has printed when the output is built: the
\* cursor-home and, after a resize, the full clear.
Prologue == <<HOME>> \o (IF Resized THEN <<CLS>> ELSE <<>>)

\* The tokens one call of _render_to_screen(rich) prints.
Printed(rich) ==
    IF content_buffer = <<>> THEN <<>>
    ELSE IF Raises(rich) THEN Prologue
    ELSE Frame(rich).emitted

\* A render that keeps the largest line count seen instead of the last one.
render_count_max(rich) ==
    IF content_buffer = <<>>
    THEN UNCHANGED <<last_line_count, terminal_size>>
    ELSE /\ terminal_size' = tty_size
         /\ last_line_count' = IF Frame(rich).line_count > last_line_count
                               THEN Frame(rich).line_count
                               ELSE last_line_count

\* A render that queries the terminal's size before it looks at the buffer.
render_queries_first(rich) ==
    IF content_buffer = <<>>
    THEN terminal_size' = tty_size /\ UNCHANGED last_line_count
    ELSE /\ terminal_size' = tty_size
         /\ last_line_count' = Frame(rich).line_count

\* Display._render_to_screen(rich): what it assigns.  When the join raises,
\* only the assignments of the resize check have been made.
render_to_screen(rich) ==
    IF content_buffer = <<>>
    THEN UNCHANGED <<last_line_count, terminal_size>>
    ELSE /\ terminal_size' = tty_size
         /\ last_line_count' =
               IF Raises(rich)
               THEN (IF Resized THEN 0 ELSE last_line_count)
               ELSE Frame(rich).line_count

\* The terminal interprets the tokens printed to it.
Terminal(toks) ==
    LET t == Emulate(Tty, toks)
    IN /\ screen' = t.screen
       /\ cursor' = [row |-> t.row, col |-> t.col]

\* The terminal is not followed.
Unwatched == UNCHANGED <<screen, cursor>>

\* History of a completed operation.  For an operation that rendered a
\* non-empty buffer: the mode, last_line_count on entry, whether the size had
\* changed, the text block, all tokens printed, the appends seen and, when it
\* repeats the render before it, what that render printed.
Op(name) == [name |-> name, snap |-> <<>>, painted |-> FALSE, rich |-> FALSE,
             prev |-> 0, resized |-> FALSE, output |-> <<>>,
             emitted |-> <<>>, seen |-> <<>>, again |-> FALSE, before |-> <<>>,
             raised |-> FALSE]

\* This render directly follows a render of the same non-empty buffer in the
\* same mode, with no other operation and no resize in between.
Again(rich) ==
    /\ hist.name = "render" /\ hist.painted /\ hist.rich = rich
    /\ content_buffer # <<>> /\ ~Resized

Rendered(name, rich, snap) ==
    IF content_buffer = <<>>
    THEN [Op(name) EXCEPT !.snap = snap, !.rich = rich]
    ELSE IF Raises(rich)
    THEN [Op(name) EXCEPT !.snap = snap, !.rich = rich, !.raised = TRUE,
                          !.prev = last_line_count, !.resized = Resized,
                          !.emitted = Prologue, !.seen = appended]
    ELSE [name |-> name, snap |-> snap, painted |-> TRUE, rich |-> rich,
          prev |-> last_line_count, resized |-> Resized,
          output |-> Frame(rich).output, emitted |-> Frame(rich).emitted,
          seen |-> appended, again |-> Again(rich),
          before |-> IF Again(rich) THEN hist.emitted ELSE <<>>,
          raised |-> FALSE]

\* ------------------------------------------------------- painter bodies

Idle == [op |-> "idle", item |-> <<>>, rich |-> FALSE, snap |-> <<>>]

BufferPrepend(buf, item) == <<item>> \o buf

\* self._content_buffer.append(other)
BufferAppend(buf, item) == Append(buf, item)

\* Body of Display.__iadd__ under the lock.
iadd_body(item) ==
    /\ content_buffer' = BufferAppend(content_buffer, item)
    /\ appended' = Append(appended, item)
    /\ UNCHANGED <<last_line_count, terminal_size>>

\* Body of Display.clear_buffer under the lock.
clear_buffer_body ==
    /\ content_buffer' = <<>>
    /\ appended' = <<>>
    /\ UNCHANGED <<last_line_count, terminal_size>>

\* print('\033[2J\033[H')
ClearTokens == <<CLS, HOME>>

\* Body of Display.clear under the lock: print('\033[2J\033[H'), reset, empty.
clear_body ==
    /\ last_line_count' = 0
    /\ content_buffer' = <<>>
    /\ appended' = <<>>
    /\ UNCHANGED terminal_size

BufferKept(buf) == buf

\* self._content_buffer.clear() after the render of display_text
BufferAfterDisplay(buf) == <<>>

\* Body of Display.display_text under the lock: render, then clear the
\* buffer; an exception of the render leaves the with-block before the clear.
display_text_body(rich) ==
    /\ render_to_screen(rich)
    /\ content_buffer' = IF Raises(rich) THEN content_buffer
                         ELSE BufferAfterDisplay(content_buffer)
    /\ appended' = IF Raises(rich) THEN appended ELSE <<>>

\* An iteration that empties the buffer after its render, as display_text does.
loop_body_drains == display_text_body(TRUE)

\* Body of the loop's iteration under the lock: render only.
loop_body ==
    /\ render_to_screen(TRUE)
    /\ UNCHANGED <<content_buffer, appended>>

\* ------------------------------------------------------------- the lock

LockIgnored == TRUE

\* threading.Lock.acquire succeeds only on a free lock.
LockFree == display_lock = NoOwner

\* self._display_thread and self._display_thread.is_alive()
LoopAlive == display_thread # None /\ pc[display_thread] # "off"

\* ---------------------------------------------- foreground, concurrent

\* The history of renders begun: not kept, or no render begun by any thread.
Untracked == <<>>
NoneBegun == [t \in Threads |-> 0]

\* The stop flag is assigned: the count starts again.
BegunReset == [t \in DOMAIN begun |-> 0]

\* Thread t begins a render: counted when the stop flag is set.
BegunCount(t) ==
    IF t \in DOMAIN begun /\ stop_display
    THEN [begun EXCEPT ![t] = Min(@ + 1, 2)]
    ELSE begun

threadVars == <<display_thread, stop_display, pc, loopRunning, begun>>
painterVars == <<content_buffer, last_line_count, terminal_size, appended>>
ttyVars == <<tty_size, screen, cursor>>

\* display += item: enter the with-block.
iadd_acquire(item) ==
    /\ fg.op = "idle"
    /\ Len(content_buffer) < MaxBuf
    /\ LockFree
    /\ display_lock' = Foreground
    /\ fg' = [Idle EXCEPT !.op = "iadd", !.item = item]
    /\ UNCHANGED <<painterVars, threadVars, ttyVars, hist>>
    /\ UNCHANGED menuVars

iadd_release ==
    /\ fg.op = "iadd"
    /\ iadd_body(fg.item)
    /\ display_lock' = NoOwner
    /\ fg' = Idle
    /\ hist' = Op("iadd")
    /\ UNCHANGED <<threadVars, tty_size>>
    /\ Unwatched
    /\ UNCHANGED menuVars

clear_buffer_acquire ==
    /\ fg.op = "idle"
    /\ LockFree
    /\ display_lock' = Foreground
    /\ fg' = [Idle EXCEPT !.op = "clear_buffer"]
    /\ UNCHANGED <<painterVars, threadVars, ttyVars, hist>>
    /\ UNCHANGED menuVars

clear_buffer_release ==
    /\ fg.op = "clear_buffer"
    /\ clear_buffer_body
    /\ display_lock' = NoOwner
    /\ fg' = Idle
    /\ hist' = Op("clear_buffer")
    /\ UNCHANGED <<threadVars, tty_size>>
    /\ Unwatched
    /\ UNCHANGED menuVars

clear_acquire ==
    /\ fg.op = "idle"
    /\ LockFree
    /\ display_lock' = Foreground
    /\ fg' = [Idle EXCEPT !.op = "clear"]
    /\ UNCHANGED <<painterVars, threadVars, ttyVars, hist>>
    /\ UNCHANGED menuVars

clear_release ==
    /\ fg.op = "clear"
    /\ clear_body
    /\ display_lock' = NoOwner
    /\ fg' = Idle
    /\ hist' = Op("clear")
    /\ UNCHANGED <<threadVars, tty_size>>
    /\ Unwatched
    /\ UNCHANGED menuVars

DisplayGuardMissing == FALSE

\* if self._display_thread and self._display_thread.is_alive(): return
DisplayGuard == LoopAlive

display_text_noop ==
    /\ fg.op = "idle"
    /\ DisplayGuard
    /\ hist' = Op("display_text_noop")
    /\ UNCHANGED <<painterVars, threadVars, display_lock, fg, ttyVars>>
    /\ UNCHANGED menuVars

display_text_acquire(rich) ==
    /\ fg.op = "idle"
    /\ ~DisplayGuard
    /\ LockFree
    /\ display_lock' = Foreground
    /\ fg' = [Idle EXCEPT !.op = "display_text", !.rich = rich,
                          !.snap = content_buffer]
    /\ UNCHANGED <<painterVars, threadVars, ttyVars, hist>>
    /\ UNCHANGED menuVars

\* A lock released by a statement after the body, skipped by an exception.
LeaveWithSkipped(raised) == IF raised THEN Foreground ELSE NoOwner

\* with self._display_lock: the lock is released when the block is left,
\* by its end or by an exception.
LeaveWith(raised) == NoOwner

display_text_release ==
    /\ fg.op = "display_text"
    /\ display_text_body(fg.rich)
    /\ display_lock' = LeaveWith(Raises(fg.rich))
    /\ fg' = Idle
    /\ hist' = Rendered("display_text", fg.rich, fg.snap)
    /\ UNCHANGED <<threadVars, tty_size>>
    /\ Unwatched
    /\ UNCHANGED menuVars

StartGuardMissing == FALSE

\* if self._display_thread and self._display_thread.is_alive(): raise
StartGuard == LoopAlive

\* start_display_loop while the guard holds: RuntimeError, nothing assigned.
start_display_loop_raise ==
    /\ fg.op = "idle"
    /\ StartGuard
    /\ hist' = Op("start_error")
    /\ UNCHANGED <<painterVars, threadVars, display_lock, fg, ttyVars>>
    /\ UNCHANGED menuVars

\* start_display_loop otherwise: clear the flag, create and start a thread.
start_display_loop_ok ==
    /\ fg.op = "idle"
    /\ ~StartGuard
    /\ \E t \in Threads :
          /\ pc[t] = "off"
          /\ \A u \in Threads : pc[u] = "off" => t <= u
          /\ stop_display' = FALSE
          /\ display_thread' = t
          /\ pc' = [pc EXCEPT ![t] = "top"]
    /\ loopRunning' = TRUE
    /\ begun' = BegunReset
    /\ hist' = Op("start")
    /\ UNCHANGED <<painterVars, display_lock, fg, ttyVars>>
    /\ UNCHANGED menuVars

\* stop_display_loop when no live thread is held: return at once.
stop_display_loop_noop ==
    /\ fg.op = "idle"
    /\ ~LoopAlive
    /\ hist' = Op("stop_noop")
    /\ UNCHANGED <<painterVars, threadVars, display_lock, fg, ttyVars>>
    /\ UNCHANGED menuVars

\* self._stop_display = True, then enter join(timeout=1.0).
stop_display_loop_signal ==
    /\ fg.op = "idle"
    /\ LoopAlive
    /\ stop_display' = TRUE
    /\ begun' = BegunReset
    /\ fg' = [Idle EXCEPT !.op = "join"]
    /\ UNCHANGED <<painterVars, display_thread, pc, loopRunning, display_lock,
                   ttyVars, hist>>
    /\ UNCHANGED menuVars

\* What join leaves in self._display_thread: the handle is forgotten.
HandleAfterJoin(h) == None

\* join returns because the thread has ended.
stop_display_loop_joined ==
    /\ fg.op = "join"
    /\ pc[display_thread] = "off"
    /\ display_thread' = HandleAfterJoin(display_thread)
    /\ loopRunning' = FALSE
    /\ fg' = Idle
    /\ hist' = Op("stop")
    /\ UNCHANGED <<painterVars, stop_display, pc, begun, display_lock, ttyVars>>
    /\ UNCHANGED menuVars

\* join returns because its timeout of one second expired: the thread is
\* still between two checks of the flag (sleeping, waiting or rendering).
stop_display_loop_timeout ==
    /\ fg.op = "join"
    /\ pc[display_thread] # "off"
    /\ display_thread' = HandleAfterJoin(display_thread)
    /\ loopRunning' = FALSE
    /\ fg' = Idle
    /\ hist' = Op("stop")
    /\ UNCHANGED <<painterVars, stop_display, pc, begun, display_lock, ttyVars>>
    /\ UNCHANGED menuVars

\* ------------------------------------------------------ the loop thread

\* A loop that never looks at the stop flag.
loop_check_deaf(t) ==
    /\ pc[t] = "top"
    /\ pc' = [pc EXCEPT ![t] = "lock"]
    /\ UNCHANGED <<painterVars, display_thread, stop_display, loopRunning,
                   begun, display_lock, fg, ttyVars, hist>>
    /\ UNCHANGED menuVars

\* while not self._stop_display: (the sleep that ends an iteration and the
\* check that begins the next are one step)
loop_check(t) ==
    /\ pc[t] = "top"
    /\ pc' = [pc EXCEPT ![t] = IF stop_display THEN "off" ELSE "lock"]
    /\ UNCHANGED <<painterVars, display_thread, stop_display, loopRunning,
                   begun, display_lock, fg, ttyVars, hist>>
    /\ UNCHANGED menuVars

\* with self._display_lock: (enter)
loop_acquire(t) ==
    /\ pc[t] = "lock"
    /\ LockFree
    /\ display_lock' = t
    /\ pc' = [pc EXCEPT ![t] = "render"]
    /\ begun' = BegunCount(t)
    /\ UNCHANGED <<painterVars, display_thread, stop_display, loopRunning,
                   fg, ttyVars, hist>>
    /\ UNCHANGED menuVars

\* self._render_to_screen(), leave the with-block, sleep.
loop_release(t) ==
    /\ pc[t] = "render"
    /\ loop_body
    /\ display_lock' = NoOwner
    /\ pc' = [pc EXCEPT ![t] = "top"]
    /\ hist' = Rendered("render", TRUE, content_buffer)
    /\ UNCHANGED <<display_thread, stop_display, loopRunning, begun, fg,
                   tty_size>>
    /\ Unwatched
    /\ UNCHANGED menuVars

\* ------------------------------------------------------------- terminal

\* The user resizes the terminal window.
Resize ==
    /\ \E s \in Sizes : s # tty_size /\ tty_size' = s
    /\ hist' = Op("resize")
    /\ UNCHANGED <<painterVars, threadVars, display_lock, fg, screen, cursor>>
    /\ UNCHANGED menuVars

\* -------------------------------------------------------- specification

\* Display.__init__: empty buffer, size queried, count 0, free lock, no
\* thread, flag clear, and print('\033[2J\033[H').
DisplayInit ==
    /\ content_buffer = <<>>
    /\ last_line_count = 0
    /\ tty_size \in Sizes
    /\ terminal_size = tty_size
    /\ display_lock = NoOwner
    /\ display_thread = None
    /\ stop_display = FALSE
    /\ pc = [t \in Threads |-> "off"]
    /\ fg = Idle
    /\ screen = BlankScreen
    /\ cursor = [row |-> 0, col |-> 0]
    /\ appended = <<>>
    /\ loopRunning = FALSE
    /\ hist = Op("init")

Result(kind, value) == [kind |-> kind, value |-> value]

\* No menu is run: its fields stay as a menu without options has them.
NoMenu ==
    /\ options = <<>>
    /\ index = 0
    /\ cancellable = FALSE
    /\ action_callback = FALSE
    /\ variant = "box"
    /\ menu_pc = "new"
    /\ result = Result("running", "")
    /\ log = [start |-> 0, keys |-> <<>>, trail |-> <<>>, calls |-> 0,
              ops |-> <<>>]

Init == DisplayInit /\ NoMenu /\ begun = Untracked

Next ==
    \/ \E item \in CallerItems : iadd_acquire(item)
    \/ iadd_release
    \/ clear_buffer_acquire
    \/ clear_buffer_release
    \/ clear_acquire
    \/ clear_release
    \/ display_text_noop
    \/ \E rich \in BOOLEAN : display_text_acquire(rich)
    \/ display_text_release
    \/ start_display_loop_raise
    \/ start_display_loop_ok
    \/ stop_display_loop_noop
    \/ stop_display_loop_signal
    \/ stop_display_loop_joined
    \/ stop_display_loop_timeout
    \/ \E t \in Threads : loop_check(t)
    \/ \E t \in Threads : loop_acquire(t)
    \/ \E t \in Threads : loop_release(t)
    \/ Resize

Spec == Init /\ [][Next]_vars

\* ------------------------------------------- the painter, one caller only

\* The painter's operations called one after the other by a single caller
\* with no display loop: each runs from acquiring the lock to releasing it.
idleVars == <<display_lock, display_thread, stop_display, pc, fg, loopRunning,
              begun>>

painter_iadd(item) ==
    /\ Len(content_buffer) < MaxBuf
    /\ iadd_body(item)
    /\ hist' = Op("iadd")
    /\ UNCHANGED <<idleVars, ttyVars>>
    /\ UNCHANGED menuVars

painter_clear_buffer ==
    /\ clear_buffer_body
    /\ hist' = Op("clear_buffer")
    /\ UNCHANGED <<idleVars, ttyVars>>
    /\ UNCHANGED menuVars

painter_clear ==
    /\ clear_body
    /\ Terminal(ClearTokens)
    /\ hist' = Op("clear")
    /\ UNCHANGED <<idleVars, tty_size>>
    /\ UNCHANGED menuVars

painter_render(rich) ==
    /\ render_to_screen(rich)
    /\ Terminal(Printed(rich))
    /\ hist' = Rendered("render", rich, content_buffer)
    /\ UNCHANGED <<content_buffer, appended, idleVars, tty_size>>
    /\ UNCHANGED menuVars

painter_display_text(rich) ==
    /\ display_text_body(rich)
    /\ Terminal(Printed(rich))
    /\ hist' = Rendered("display_text", rich, content_buffer)
    /\ UNCHANGED <<idleVars, tty_size>>
    /\ UNCHANGED menuVars

NextPainter ==
    \/ \E item \in PainterItems : painter_iadd(item)
    \/ painter_clear_buffer
    \/ painter_clear
    \/ \E rich \in BOOLEAN : painter_render(rich)
    \/ \E rich \in BOOLEAN : painter_display_text(rich)
    \/ Resize

SpecPainter == Init /\ [][NextPainter]_vars

\* The same caller appending items of which some cannot be converted.
NextFaulty ==
    \/ \E item \in FaultyItems : painter_iadd(item)
    \/ painter_clear_buffer
    \/ painter_clear
    \/ \E rich \in BOOLEAN : painter_render(rich)
    \/ \E rich \in BOOLEAN : painter_display_text(rich)
    \/ Resize

SpecFaulty == Init /\ [][NextFaulty]_vars

\* ------------------------------------------- the display loop, scheduled

\* The caller starts and stops the loop and, between these calls, takes the
\* lock for clear_buffer as often as it likes.
InitLoop == DisplayInit /\ NoMenu /\ begun = NoneBegun

NextLoop ==
    \/ clear_buffer_acquire
    \/ clear_buffer_release
    \/ start_display_loop_ok
    \/ stop_display_loop_signal
    \/ stop_display_loop_joined
    \/ stop_display_loop_timeout
    \/ \E t \in Threads : loop_check(t)
    \/ \E t \in Threads : loop_acquire(t)
    \/ \E t \in Threads : loop_release(t)

\* Every started thread is scheduled again and again, a with-block that was
\* entered is left, and a thread that finds the lock free again and again
\* gets it.
LoopFairness ==
    /\ WF_vars(clear_buffer_release)
    /\ \A t \in Threads :
          /\ WF_vars(loop_check(t))
          /\ SF_vars(loop_acquire(t))
          /\ WF_vars(loop_release(t))

SpecLoop == InitLoop /\ [][NextLoop]_vars /\ LoopFairness

\* ------------------------------------------------ the lock, scheduled

\* The caller issues every operation of the painter, in any order, beside
\* the loop threads; the one item it appends cannot be converted, so every
\* render of a non-empty buffer fails: caught in rich mode, raised to the
\* caller of display_text in non-rich mode.
LockItems == {ItemRaises}

\* The caller appends to an empty buffer only: one item at most is held.
lock_append(item) ==
    /\ content_buffer = <<>>
    /\ iadd_acquire(item)

\* The terminal keeps the size of the tests' window.
InitLock == Init /\ tty_size = <<80, 24>>

NextLock ==
    \/ \E item \in LockItems : lock_append(item)
    \/ iadd_release
    \/ clear_buffer_acquire
    \/ clear_buffer_release
    \/ clear_acquire
    \/ clear_release
    \/ display_text_noop
    \/ \E rich \in BOOLEAN : display_text_acquire(rich)
    \/ display_text_release
    \/ start_display_loop_raise
    \/ start_display_loop_ok
    \/ stop_display_loop_noop
    \/ stop_display_loop_signal
    \/ stop_display_loop_joined
    \/ stop_display_loop_timeout
    \/ \E t \in Threads : loop_check(t)
    \/ \E t \in Threads : loop_acquire(t)
    \/ \E t \in Threads : loop_release(t)

\* A with-block that was entered is left, and a thread that finds the lock
\* free again and again gets it.
LockFairness ==
    /\ WF_vars(iadd_release)
    /\ WF_vars(clear_buffer_release)
    /\ WF_vars(clear_release)
    /\ WF_vars(display_text_release)
    /\ \A t \in Threads :
          /\ WF_vars(loop_release(t))
          /\ SF_vars(loop_acquire(t))

SpecLock == InitLock /\ [][NextLock]_vars /\ LockFairness

\* ------------------------------------- the display loop, frames appended

\* The caller of flicker_test: with the loop started, it builds every frame
\* as clear_buffer followed by one append per item of the frame.
FrameSize == MaxBuf

frame_clear ==
    /\ loopRunning
    /\ Len(content_buffer) = FrameSize
    /\ clear_buffer_acquire

frame_append(item) ==
    /\ loopRunning
    /\ Len(content_buffer) < FrameSize
    /\ iadd_acquire(item)

NextFrames ==
    \/ start_display_loop_ok
    \/ frame_clear
    \/ clear_buffer_release
    \/ \E item \in CallerItems : frame_append(item)
    \/ iadd_release
    \/ \E t \in Threads : loop_check(t)
    \/ \E t \in Threads : loop_acquire(t)
    \/ \E t \in Threads : loop_release(t)

SpecFrames == Init /\ [][NextFrames]_vars

\* ---------------------------------------------------------------- menus

MaxOptions == 3
MaxKeys == 3

\* The values of the options a menu is constructed with.
OptionValues == <<"A", "B", "C", "D", "E">>
Menus == {SubSeq(OptionValues, 1, n) : n \in 0..MaxOptions}

\* starting_index: the constructor stores any integer.
StartIndexes(opts) == -1..Len(opts)

\* The names keyboard.read_key() returns; "tab" stands for every other key.
Keys == {"up", "down", "space", "enter", "esc", "tab"}

NavigateClamped(key, i, n) ==
    IF key = "up" THEN Max(i - 1, 0)
    ELSE IF key = "down" THEN Min(i + 1, n - 1)
    ELSE i

\* self.index = (self.index - 1) % len(self.options), and + 1 for "down"
Navigate(key, i, n) ==
    IF key = "up" THEN (i - 1) % n
    ELSE IF key = "down" THEN (i + 1) % n
    ELSE i

\* key in ["space", "enter"]
Selects(key) == key \in {"space", "enter"}

CancelsNever(key) == FALSE

\* key == "esc" and self.cancellable
Cancels(key) == key = "esc" /\ cancellable

\* self.options[self.index]: a Python list takes indexes from -len to len - 1
\* and raises IndexError for every other.
InRange(opts, i) == -Len(opts) <= i /\ i < Len(opts)
OptionAt(opts, i) == opts[(i % Len(opts)) + 1]

AnyOptions(opts) == TRUE

\* if not self.options: return None
HasOptions(opts) == opts # <<>>

\* The widgets of one frame.  A row or an option is a line of two or three
\* cells: its style, its number in the numbered menu, and its text.
RowStyle(k, i) == IF k - 1 = i THEN "highlight" ELSE "normal"

\* self.table with rows[i].style set for this frame
TableItem(opts, i) == [k \in 1..Len(opts) |-> <<RowStyle(k, i), opts[k]>>]

\* " | ".join(controls)
ControlsItem(c) ==
    << <<"Navigate">> \o (IF c THEN <<"Cancel">> ELSE <<>>) \o <<"Select">> >>

TitleItem == << <<"bold", "title">> >>
NumberLabels == <<"1.", "2.", "3.", "4.", "5.">>

\* f"[{style}]{i+1}. {option.name}[/{style}]"
OptionItem(opts, k, i) == << <<RowStyle(k, i), NumberLabels[k], opts[k]>> >>

\* display += ""
SpacerItem == << <<>> >>

\* The items run appends for one frame, in order.
MenuFrame(v, opts, i, c) ==
    IF v = "box"
    THEN <<TableItem(opts, i), ControlsItem(c)>>
    ELSE <<TitleItem>> \o [k \in 1..Len(opts) |-> OptionItem(opts, k, i)]
         \o <<SpacerItem, ControlsItem(c)>>

PainterOp(name, item) == [op |-> name, item |-> item]

\* A frame that is painted before its widgets are appended.
FrameOpsPaintFirst(items) ==
    <<PainterOp("clear_buffer", <<>>), PainterOp("display_text", <<>>)>>
    \o [k \in 1..Len(items) |-> PainterOp("iadd", items[k])]

\* The painter operations of one frame: clear_buffer, the appends,
\* display_text.
FrameOps(items) ==
    <<PainterOp("clear_buffer", <<>>)>>
    \o [k \in 1..Len(items) |-> PainterOp("iadd", items[k])]
    \o <<PainterOp("display_text", <<>>)>>

displayVars == <<display_lock, display_thread, stop_display, pc, fg,
                 loopRunning, begun, tty_size, screen, cursor>>
menuFields == <<options, cancellable, action_callback, variant>>

\* run on a menu without options: return None.
run_empty ==
    /\ menu_pc = "new"
    /\ ~HasOptions(options)
    /\ menu_pc' = "done"
    /\ result' = Result("null", "")
    /\ UNCHANGED <<painterVars, displayVars, hist, menuFields, index, log>>

\* run on a menu with options, up to the loop: display.clear().
run_clear ==
    /\ menu_pc = "new"
    /\ HasOptions(options)
    /\ clear_body
    /\ hist' = Op("clear")
    /\ menu_pc' = "frame"
    /\ log' = [log EXCEPT !.ops = <<PainterOp("clear", <<>>)>>]
    /\ UNCHANGED <<displayVars, menuFields, index, result>>

\* One pass of the loop of run up to the key read: clear_buffer, the appends
\* of the frame, display_text (which renders rich and empties the buffer).
\* No display loop runs beside a menu.
run_frame ==
    /\ menu_pc = "frame"
    /\ ~DisplayGuard
    /\ LET items == MenuFrame(variant, options, index, cancellable)
           output == RichOutput(items)
           prev == IF Resized THEN 0 ELSE last_line_count
       IN /\ content_buffer' = BufferAfterDisplay(items)
          /\ appended' = <<>>
          /\ terminal_size' = tty_size
          /\ last_line_count' = LineCount(output)
          /\ hist' = [Op("display_text") EXCEPT
                         !.snap = items, !.painted = TRUE, !.rich = TRUE,
                         !.prev = last_line_count, !.resized = Resized,
                         !.output = output, !.seen = items,
                         !.emitted = Prologue \o output
                                     \o ErasePass(LineCount(output), prev)]
          /\ log' = [log EXCEPT !.ops = @ \o FrameOps(items)]
    /\ menu_pc' = "key"
    /\ UNCHANGED <<displayVars, menuFields, index, result>>

\* _handle_user_input: read one key and act on it.
handle_user_input(key) ==
    /\ menu_pc = "key"
    /\ Len(log.keys) < MaxKeys
    /\ index' = Navigate(key, index, Len(options))
    /\ IF Selects(key)
       THEN /\ clear_body
            /\ hist' = Op("clear")
            /\ menu_pc' = "done"
            /\ result' = IF InRange(options, index)
                         THEN Result("value", OptionAt(options, index))
                         ELSE Result("raised", "IndexError")
            /\ log' = [log EXCEPT
                          !.keys = Append(@, key), !.trail = Append(@, index),
                          !.ops = <<PainterOp("clear", <<>>)>>,
                          !.calls = IF InRange(options, index) /\ action_callback
                                    THEN @ + 1 ELSE @]
       ELSE /\ UNCHANGED <<painterVars, hist>>
            /\ menu_pc' = IF Cancels(key) THEN "done" ELSE "frame"
            /\ result' = IF Cancels(key) THEN Result("null", "") ELSE result
            /\ log' = [log EXCEPT
                          !.keys = Append(@, key), !.trail = Append(@, index),
                          !.ops = <<>>]
    /\ UNCHANGED <<displayVars, menuFields>>

\* A menu of either variant is constructed on a fresh display.
MenuConstructed ==
    /\ options \in Menus
    /\ index \in StartIndexes(options)
    /\ cancellable \in BOOLEAN
    /\ action_callback \in BOOLEAN
    /\ variant \in {"box", "numbered"}
    /\ menu_pc = "new"
    /\ result = Result("running", "")
    /\ log = [start |-> index, keys |-> <<>>, trail |-> <<>>, calls |-> 0,
              ops |-> <<>>]

InitMenu == DisplayInit /\ MenuConstructed /\ begun = Untracked

NextMenu ==
    \/ run_empty
    \/ run_clear
    \/ run_frame
    \/ \E key \in Keys : handle_user_input(key)

SpecMenu == InitMenu /\ [][NextMenu]_vars

\* ================================================================ claims

\* The lines of a token sequence: split at the newlines.
RECURSIVE SplitLines(_, _)
SplitLines(toks, line) ==
    IF toks = <<>> THEN <<line>>
    ELSE IF Head(toks).k = "nl" THEN <<line>> \o SplitLines(Tail(toks), <<>>)
    ELSE SplitLines(Tail(toks), Append(line, Head(toks).c))

\* The text lines of the block a render printed: in rich mode the block ends
\* with a newline, after which no line follows.
TextLines(h) ==
    LET ls == SplitLines(h.output, <<>>)
    IN IF h.rich THEN SubSeq(ls, 1, Len(ls) - 1) ELSE ls

\* The lines an item is to show as: its own, or the error line in rich mode
\* when it cannot be rendered.
ShownAs(item, rich) ==
    IF (rich /\ item \in Malformed) \/ item \in Unprintable
    THEN << <<"ERROR OCCURRED">> >> ELSE item

Occurrences(lines, pat) ==
    Cardinality({k \in 1..(Len(lines) - Len(pat) + 1) :
                    SubSeq(lines, k, k + Len(pat) - 1) = pat})

CountIn(buf, item) == Cardinality({k \in 1..Len(buf) : buf[k] = item})

\* Who is inside a lock-protected section.
InSection ==
    {t \in Threads : pc[t] = "render"}
    \cup (IF fg.op \in {"iadd", "clear_buffer", "clear", "display_text"}
          THEN {Foreground} ELSE {})

\* C1: the lock-protected sections of append, clearBuffer, fullClear,
\* displayNow and the loop's render never overlap: at most one of the
\* foreground caller and the loop threads is inside its section, and it is
\* the holder of the lock.
C1_MutualExclusion ==
    /\ Cardinality(InSection) <= 1
    /\ \A h \in InSection : display_lock = h
    /\ InSection = {} => display_lock = NoOwner

\* The foreground caller is inside append while a loop thread waits for the lock.
C1_Witness == fg.op = "iadd" /\ \E t \in Threads : pc[t] = "lock"

Alive == {t \in Threads : pc[t] # "off"}

\* C2: after any sequence of start() and stop() calls at most one
\* background repaint task is alive at any time.
C2_AtMostOneTask == Cardinality(Alive) <= 1

\* C3: start() called while the loop is Running raises "already running"
\* and changes nothing: the task, the stop flag, the buffer and
\* lastLineCount stay as they were and no second task is created.
C3_StartWhileRunning ==
    [][(loopRunning /\ (start_display_loop_raise \/ start_display_loop_ok))
        => /\ hist'.name = "start_error"
           /\ UNCHANGED <<display_thread, stop_display, pc, content_buffer,
                          last_line_count, terminal_size, display_lock>>]_vars

\* start() has failed while the loop was running and about to render.
C3_Witness ==
    /\ hist.name = "start_error" /\ loopRunning
    /\ \E t \in Threads : pc[t] = "render"

\* C4: whenever a call to stop() has returned and start() has not been
\* called again, no loop task is rendering.
C4_NoRenderAfterStop ==
    ~loopRunning => \A t \in Threads : pc[t] # "render"

\* C5: displayNow called while the display loop is active is a no-op: it
\* prints nothing, takes no lock and leaves the buffer, lastLineCount and
\* the cached geometry unchanged.
C5_DisplayWhileRunning ==
    [][(loopRunning /\ (\/ display_text_noop
                        \/ \E rich \in BOOLEAN : display_text_acquire(rich)
                        \/ display_text_release))
        => /\ hist'.name = "display_text_noop" /\ hist'.emitted = <<>>
           /\ UNCHANGED <<content_buffer, last_line_count, terminal_size,
                          display_lock, fg, screen, cursor>>]_vars

\* displayNow has returned as a no-op with items waiting in the buffer.
C5_Witness ==
    /\ hist.name = "display_text_noop" /\ loopRunning
    /\ content_buffer # <<>>

\* C6: displayNow called while no loop is active renders and then empties
\* the buffer in one lock hold: when it has returned the buffer is empty and
\* every item that was in the buffer when the lock was taken has been
\* painted exactly once.
C6_DisplayNowDrains ==
    hist.name = "display_text" =>
        /\ content_buffer = <<>>
        /\ hist.snap # <<>> =>
              /\ hist.painted
              /\ Len(TextLines(hist)) = Len(Flatten(hist.snap))
              /\ \A item \in Items :
                    Occurrences(TextLines(hist), ShownAs(item, hist.rich))
                        = CountIn(hist.snap, item)

\* displayNow has painted and drained a buffer of two different items.
C6_Witness ==
    /\ hist.name = "display_text" /\ Len(hist.snap) = 2
    /\ hist.snap[1] # hist.snap[2]

\* C7: every render, by the loop or by displayNow, paints the items
\* appended since the last clear of the buffer in the order of the appends.
C7_AppendOrder ==
    hist.painted =>
        TextLines(hist)
            = Flatten([k \in 1..Len(hist.seen) |-> ShownAs(hist.seen[k], hist.rich)])

\* A loop render has painted two different items.
C7_Witness ==
    /\ hist.painted /\ hist.name = "render" /\ Len(hist.seen) = 2
    /\ hist.seen[1] # hist.seen[2]

\* The erase-to-end-of-line operations a render printed.
Erases(h) == CountKind(h.emitted, "el")

\* C8 as claimed: a render that repeats the render before it, on an
\* unchanged non-empty buffer with no resize in between, prints exactly the
\* bytes that render printed, whatever lastLineCount was before the first.
C8_RepeatIdentical == hist.again => hist.emitted = hist.before

\* C8 as amended: the repeated render prints the cursor-home and the same
\* text block, and leaves the same line count; all its bytes equal those of
\* the first render when the first printed neither an erase pass nor a
\* full clear.
C8_RepeatSameBlock ==
    hist.again =>
        /\ hist.emitted = <<HOME>> \o hist.output
        /\ last_line_count = hist.prev
        /\ \E k \in 1..Len(hist.before) :
              /\ SubSeq(hist.before, k, k + Len(hist.output) - 1) = hist.output
              /\ \A j \in 1..(k - 1) : hist.before[j].k \in {"home", "cls"}
        /\ (CountKind(hist.before, "el") = 0 /\ CountKind(hist.before, "cls") = 0)
              => hist.emitted = hist.before

\* A render has repeated a render that had to erase lines of a longer frame.
C8_Witness == hist.again /\ CountKind(hist.before, "el") > 0

\* A render of a non-empty buffer, with no resize, that wrote fewer lines
\* than the render before it.
Shrunk == hist.painted /\ ~hist.resized /\ hist.prev > last_line_count

\* C9 as claimed: a render that writes L2 lines after a render of L1 > L2
\* lines prints exactly L1 - L2 erase-to-end-of-line operations and leaves
\* the cursor on row L2, rows counted from the home row 0.
C9_ShrinkCursorAtL2 ==
    Shrunk => /\ Erases(hist) = hist.prev - last_line_count
              /\ cursor.row = last_line_count

\* C9 as amended: it prints exactly L1 - L2 erase operations and leaves the
\* cursor on row L2 - 1 counted from the home row 0, the row on which the
\* text block ended.
C9_ShrinkCursorAtEnd ==
    Shrunk => /\ Erases(hist) = hist.prev - last_line_count
              /\ cursor.row = last_line_count - 1
              /\ cursor.row = CountKind(hist.output, "nl")

\* A render has shrunk the frame by two lines or more.
C9_Witness == Shrunk /\ hist.prev - last_line_count >= 2

\* C10: after a render that follows a longer frame, every row below the
\* rows of the new frame is blank, in non-rich and in rich mode.
C10_NoStaleRows ==
    (hist.painted /\ hist.prev > last_line_count) =>
        \A r \in (Len(TextLines(hist)) + 1)..ScreenRows : screen[r] = <<>>

\* The same for non-rich renders only.
C10_NoStaleRowsPlain == hist.rich \/ C10_NoStaleRows

\* C11: a render of a non-empty buffer prints a full-screen clear exactly
\* when the terminal's size differs from the cached size; it then prints
\* exactly one, after its only cursor-home, and its erase pass, computed
\* from a line count of 0, erases nothing.  No render prints more than one
\* full clear.
C11_ClearOnResize ==
    hist.painted =>
        /\ CountKind(hist.emitted, "cls") = (IF hist.resized THEN 1 ELSE 0)
        /\ CountKind(hist.emitted, "home") = 1
        /\ hist.emitted[1] = HOME
        /\ hist.resized =>
              /\ hist.emitted = <<HOME, CLS>> \o hist.output
              /\ Erases(hist) = 0

\* A render after a resize wrote fewer lines than the frame before it.
C11_Witness == hist.painted /\ hist.resized /\ hist.prev > last_line_count

\* C12: a render never raises to its caller, in rich and in non-rich mode:
\* every render of a non-empty buffer returns normally, has painted the
\* items in the order of their appends with each item that failed replaced
\* by the line "ERROR OCCURRED", has updated lastLineCount to the count of
\* the block it printed, and has released the lock.
C12_RenderNeverRaises ==
    (hist.name \in {"render", "display_text"} /\ hist.snap \o hist.seen # <<>>) =>
        /\ ~hist.raised
        /\ hist.painted
        /\ TextLines(hist)
              = Flatten([k \in 1..Len(hist.seen) |-> ShownAs(hist.seen[k], hist.rich)])
        /\ last_line_count = LineCount(hist.output)
        /\ display_lock = NoOwner

\* The same for rich renders only.
C12_RichNeverRaises == hist.rich => C12_RenderNeverRaises

\* The residue of x modulo n, the r in 0..n-1 with x = q * n + r, for the x
\* one step away from a starting index.
Wrap(x, n) == CHOOSE r \in 0..(n - 1) : \E q \in -2..2 : x = q * n + r

\* The index the menu had after its k-th key.
IndexAfter(k) == IF k < Len(log.keys) THEN log.trail[k + 1] ELSE index

\* Keys j..k of the menu, all of them the key named.
AllKeys(j, k, key) == \A m \in j..k : log.keys[m] = key

CountKey(keys, key) == Cardinality({k \in 1..Len(keys) : keys[k] = key})

\* The keys up and down move the index by one, modulo the number of options;
\* as many equal moves as there are options, and a down followed by an up,
\* bring the index back.
Navigation ==
    LET n == Len(options)
    IN \A k \in 1..Len(log.keys) :
          /\ log.keys[k] = "down" => IndexAfter(k) = Wrap(log.trail[k] + 1, n)
          /\ log.keys[k] = "up" => IndexAfter(k) = Wrap(log.trail[k] - 1, n)
          /\ (k + n - 1 <= Len(log.keys)
                /\ (AllKeys(k, k + n - 1, "down") \/ AllKeys(k, k + n - 1, "up")))
                => IndexAfter(k + n - 1) = log.trail[k]
          /\ (k < Len(log.keys) /\ log.keys[k] = "down" /\ log.keys[k + 1] = "up")
                => IndexAfter(k + 1) = log.trail[k]

\* C13: in a menu with N >= 1 options and current index i, the key down
\* sets the index to (i+1) mod N and the key up to (i-1) mod N; N down keys
\* in a row, or N up keys in a row, return the index to i, and a down
\* followed by an up restores i.
C13_MenuNavigation == Navigation

\* The same for menus started at an index from 0 to N - 1.
C13_NavigationInRange ==
    log.start \in 0..(Len(options) - 1) => Navigation

\* The key read last.
LastKey == log.keys[Len(log.keys)]

\* C14: a menu with N >= 1 options, started at an index s from 0 to N - 1,
\* whose last key read is its first space or enter has returned the value
\* of the option at index (s + #down - #up) mod N, counted over the keys
\* before it, and has invoked the action callback, if there is one, exactly
\* once; before that key the callback is not invoked, and no key is read
\* after it.
C14_SelectReturnsOption ==
    log.start \in 0..(Len(options) - 1) =>
        LET n == Len(options)
            net == CountKey(log.keys, "down") - CountKey(log.keys, "up")
            chosen == \E k \in 1..Len(log.keys) : Selects(log.keys[k])
        IN /\ chosen =>
                /\ Selects(LastKey)
                /\ \A k \in 1..(Len(log.keys) - 1) : ~Selects(log.keys[k])
                /\ menu_pc = "done"
                /\ result = Result("value",
                                   options[((log.start + net + MaxKeys * n) % n) + 1])
                /\ log.calls = (IF action_callback THEN 1 ELSE 0)
           /\ ~chosen => log.calls = 0 /\ result.kind # "value"

\* The menu A, B, C with a callback, started at 0, has returned C after the
\* keys down, down, enter.
C14_Witness ==
    /\ options = <<"A", "B", "C">> /\ log.start = 0 /\ action_callback
    /\ log.keys = <<"down", "down", "enter">>
    /\ result = Result("value", "C") /\ log.calls = 1

\* C15: in a menu with cancellable = true the key esc, after any navigation
\* keys, makes run return null at once: it is the last key read, no painter
\* operation follows it, and the action callback is not invoked.
C15_EscCancels ==
    (cancellable /\ \E k \in 1..Len(log.keys) : log.keys[k] = "esc") =>
        /\ LastKey = "esc"
        /\ \A k \in 1..(Len(log.keys) - 1) : log.keys[k] # "esc"
        /\ menu_pc = "done"
        /\ result = Result("null", "")
        /\ log.calls = 0
        /\ log.ops = <<>>
        /\ index = log.trail[Len(log.keys)]

\* A cancellable menu with a callback has been cancelled after a navigation.
C15_Witness ==
    /\ cancellable /\ action_callback /\ Len(options) >= 2
    /\ log.keys = <<"down", "esc">> /\ menu_pc = "done"

\* A key the menu ignores: esc when it is not cancellable, and every key
\* other than up, down, space, enter and esc.
IsIgnored(key) ==
    \/ key = "esc" /\ ~cancellable
    \/ key \notin {"up", "down", "space", "enter", "esc"}

\* An ignored key leaves the index, the callback and the result alone, and
\* the loop goes on to its next frame.
IgnoredKeys ==
    \A k \in 1..Len(log.keys) :
        IsIgnored(log.keys[k]) =>
            /\ IndexAfter(k) = log.trail[k]
            /\ k = Len(log.keys) =>
                  /\ menu_pc \in {"frame", "key"}
                  /\ result = Result("running", "")
                  /\ log.calls = 0
                  /\ menu_pc = "key" =>
                        log.ops = FrameOps(MenuFrame(variant, options, index,
                                                     cancellable))

\* C16: esc in a menu with cancellable = false, and every key other than
\* up, down, space, enter and esc in any menu, is ignored: the index is
\* unchanged, the callback is not invoked, run does not return and the loop
\* proceeds to the next frame; so with cancellable = false the keys esc,
\* enter return the option at the starting index.
C16_IgnoredThenEnter ==
    /\ IgnoredKeys
    /\ (~cancellable /\ log.keys = <<"esc", "enter">>) =>
          /\ result.kind = "value"
          /\ result.value = OptionAt(options, log.start)

\* The first half alone: ignored keys change nothing.
C16_IgnoredKeys == IgnoredKeys

\* C17: run on a menu with zero options, tabular or numbered, returns null
\* without reading a key, without invoking the action callback and without
\* any painter operation: no full clear, no append, no render.
C17_EmptyMenu ==
    options = <<>> =>
        /\ menu_pc \in {"new", "done"}
        /\ menu_pc = "done" => result = Result("null", "")
        /\ log.keys = <<>> /\ log.calls = 0 /\ log.ops = <<>>
        /\ hist = Op("init")
        /\ content_buffer = <<>> /\ last_line_count = 0
        /\ screen = BlankScreen

\* run has returned on a numbered menu without options that has a callback.
C17_Witness ==
    /\ options = <<>> /\ variant = "numbered" /\ action_callback
    /\ menu_pc = "done"

\* C19: a render performed by the display loop never changes the buffer:
\* after each iteration the buffer holds the items it held before, in the
\* same order, so appended content is painted again by the next iteration.
C19_LoopKeepsBuffer ==
    hist.name = "render" =>
        /\ content_buffer = hist.snap
        /\ appended = hist.seen
        /\ hist.painted => content_buffer # <<>>

\* The loop has painted the same buffer of two items twice in a row.
C19_Witness ==
    /\ hist.name = "render" /\ hist.again /\ Len(content_buffer) = 2
    /\ \E t \in Threads : pc[t] = "top"

\* C20: after any render has returned, lastLineCount equals exactly the
\* number of text lines that render wrote to the terminal, also for a
\* render of an empty buffer (which writes none) and for a rich render
\* whose output ends with a newline; after the constructor and after a
\* full clear it is 0.
C20_CountIsLinesWritten ==
    /\ hist.name \in {"init", "clear"} => last_line_count = 0
    /\ hist.painted => last_line_count = Len(TextLines(hist))
    /\ (hist.name \in {"render", "display_text"} /\ ~hist.painted /\ ~hist.raised)
          => last_line_count = 0

\* The same for non-rich renders of a non-empty buffer, the constructor and
\* the full clear.
C20_PlainCount ==
    /\ hist.name \in {"init", "clear"} => last_line_count = 0
    /\ (hist.painted /\ ~hist.rich) => last_line_count = Len(TextLines(hist))

\* A loop thread leaves its render only by completing it.
RenderCompletes ==
    [][\A t \in Threads :
          (pc[t] = "render" /\ pc'[t] # "render")
              => (pc'[t] = "top" /\ hist'.name = "render")]_vars

\* C18: once stop() has set the stop flag, and until start() clears it
\* again, a render in progress completes, every loop thread begins at most
\* one further render, and under fair scheduling every loop thread
\* eventually ends.
C18_CooperativeStop ==
    /\ [](stop_display => \A t \in Threads : begun[t] <= 1)
    /\ RenderCompletes
    /\ \A t \in Threads :
          (stop_display /\ pc[t] # "off") ~> (~stop_display \/ pc[t] = "off")

\* A loop thread has ended after the one render it began after the signal,
\* with the flag still set.
C18_Witness ==
    stop_display /\ \E t \in Threads : begun[t] = 1 /\ pc[t] = "off"

\* C21 as claimed: after every render has returned, whatever the buffer
\* held, the cached size equals the terminal's size at that render.
C21_CacheAfterRender ==
    hist.name \in {"render", "display_text"} => terminal_size = tty_size

\* C21 as amended: after every render of a non-empty buffer the cached size
\* equals the terminal's size at that render; a render of an empty buffer
\* returns before the size is queried and leaves the cached size as it was.
C21_CacheAfterPaint ==
    /\ [](hist.painted => terminal_size = tty_size)
    /\ [][\A rich \in BOOLEAN :
             (painter_render(rich) \/ painter_display_text(rich)) =>
                 IF content_buffer = <<>>
                 THEN terminal_size' = terminal_size
                 ELSE terminal_size' = tty_size]_vars

\* A render of an empty buffer has returned after a resize, the cached size
\* still that of the old window.
C21_Witness ==
    /\ hist.name = "render" /\ ~hist.painted /\ content_buffer = <<>>
    /\ terminal_size # tty_size

\* The index moves only at the keys up and down.
OnlyNavigationMoves ==
    \A k \in 1..Len(log.keys) :
        log.keys[k] \notin {"up", "down"} => IndexAfter(k) = log.trail[k]

\* C22: for a menu constructed with N >= 1 options and any starting index
\* the constructor accepts, in every state reached during run the index is
\* an integer from 0 to N - 1, and it changes only at the keys up and down.
C22_IndexInRange ==
    (HasOptions(options) /\ menu_pc # "new") =>
        /\ index \in 0..(Len(options) - 1)
        /\ OnlyNavigationMoves

\* The second half alone: only up and down change the index.
C22_OnlyNavigationMoves == OnlyNavigationMoves

\* The painter operations since the last key was read, without the full
\* clear that opens run.
SinceKey ==
    IF log.keys = <<>> /\ log.ops # <<>> THEN Tail(log.ops) ELSE log.ops

\* C23: run on a menu with options performs one full clear first; then
\* every key read is directly preceded by, in this order, a clear_buffer,
\* the appends of the frame's widgets, the controls line last, and one
\* display_text; the frame is the one of the index all earlier keys have
\* produced, and no key is read before the first paint.
C23_FrameProtocol ==
    /\ (HasOptions(options) /\ menu_pc # "new" /\ log.keys = <<>>)
          => (log.ops # <<>> /\ log.ops[1] = PainterOp("clear", <<>>))
    /\ menu_pc = "key" =>
          LET ops == SinceKey
              n == Len(ops)
          IN /\ n >= 3
             /\ ops[1] = PainterOp("clear_buffer", <<>>)
             /\ ops[n] = PainterOp("display_text", <<>>)
             /\ \A k \in 2..(n - 1) : ops[k].op = "iadd"
             /\ ops[n - 1].item = ControlsItem(cancellable)
             /\ [k \in 1..(n - 2) |-> ops[k + 1].item]
                   = MenuFrame(variant, options, index, cancellable)
             /\ hist.name = "display_text" /\ hist.painted
             /\ content_buffer = <<>>
    /\ log.keys # <<>> =>
          (log.ops = <<>> \/ menu_pc \in {"key", "done"})

\* A numbered menu waits for its third key with the frame of the index the
\* keys down, down have produced.
C23_Witness ==
    /\ menu_pc = "key" /\ variant = "numbered" /\ Len(options) = 3
    /\ log.start = 0 /\ log.keys = <<"down", "down">> /\ index = 2

\* The rows of the table the tabular menu painted last that carry a style.
RowsStyled(style) ==
    LET table == hist.snap[1]
    IN {k \in 1..Len(table) : table[k][1] = style}

\* The table painted last has one highlighted row, the row of the index, and
\* all its other rows carry the normal style.
OneHighlightedRow ==
    /\ Len(hist.snap[1]) = Len(options)
    /\ RowsStyled("highlight") = {index + 1}
    /\ RowsStyled("normal") = (1..Len(options)) \ {index + 1}

\* C24: at every paint of the tabular menu exactly one table row carries
\* the highlight style, the row at the current index, and every other row
\* carries the normal style, after any sequence of up and down keys.
C24_OneHighlightedRow ==
    (variant = "box" /\ menu_pc = "key") => OneHighlightedRow

\* The same for menus started at an index from 0 to N - 1.
C24_HighlightInRange ==
    (variant = "box" /\ menu_pc = "key"
        /\ log.start \in 0..(Len(options) - 1)) => OneHighlightedRow

\* C25: while the display loop runs and the caller builds each frame as
\* clear_buffer followed by k >= 2 separate appends, every non-empty buffer
\* the loop paints holds all k items of one frame, never only the first
\* j < k items of a frame under construction.
C25_WholeFrames ==
    (hist.name = "render" /\ hist.painted) => Len(hist.snap) = FrameSize

\* The holder of the lock is inside a with-block it can leave at once, is
\* not itself waiting for the lock, and is not the caller waiting in join.
HolderCanRelease ==
    /\ display_lock = Foreground =>
          /\ fg.op \in {"iadd", "clear_buffer", "clear", "display_text"}
          /\ ENABLED (iadd_release \/ clear_buffer_release \/ clear_release
                      \/ display_text_release)
    /\ \A t \in Threads :
          display_lock = t => (pc[t] = "render" /\ ENABLED loop_release(t))
    /\ fg.op = "join" => display_lock # Foreground

\* C26: the painter is deadlock-free: whoever holds the lock can release it
\* and does, also when the render under the lock fails; nobody takes the
\* lock while holding it; and a loop thread waiting for the lock gets it.
C26_DeadlockFree ==
    /\ []HolderCanRelease
    /\ (display_lock # NoOwner) ~> (display_lock = NoOwner)
    /\ \A t \in Threads : (pc[t] = "lock") ~> (pc[t] = "render")

\* A non-rich display_text has raised and released the lock while a loop
\* thread left behind by a timed-out join waits for it.
C26_Witness ==
    /\ hist.name = "display_text" /\ hist.raised /\ display_lock = NoOwner
    /\ \E t \in Threads : pc[t] = "lock"

\* C27: after a render of a non-empty buffer with no resize, every screen
\* row the new frame wrote shows exactly the new frame's text for that row:
\* where the new line is shorter than what the previous frame left on the
\* row, none of the previous frame's trailing characters remain.
C27_RowsShowNewText ==
    (hist.painted /\ ~hist.resized) =>
        \A r \in 1..Len(TextLines(hist)) : screen[r] = TextLines(hist)[r]

\* The same for the leading cells of every row: the new text is there.
C27_RowsBeginWithNewText ==
    (hist.painted /\ ~hist.resized) =>
        \A r \in 1..Len(TextLines(hist)) :
            SubSeq(screen[r], 1, Len(TextLines(hist)[r])) = TextLines(hist)[r]

====
